---- MODULE Spec2Model ----
(***************************************************************************)
(* Payment confirmation state machine (Payoneer IPN webhook) and resource  *)
(* access gate of the Berlin-Benz backend.                                 *)
(*                                                                         *)
(* The stores are the in-memory Maps/array of backend/models/user.js.  A   *)
(* request handler is an async function: the code between two awaits runs  *)
(* without interruption, and other requests may run at every await.  The   *)
(* db methods contain no await of their own (findActiveByUserId excepted), *)
(* so a call `await db.x.f()` performs f's effect and then yields.  Each   *)
(* action below is one such uninterrupted stretch of a handler.            *)
(***************************************************************************)
EXTENDS Integers, Sequences, FiniteSets, TLC

(***************************************************************************)
(* Bounds of the model                                                     *)
(***************************************************************************)
MaxHook == 2
MaxPay == 1

\* bounds of the access gate specification
GateMaxHook == 1
MaxGate == 1

\* notifications of the purchase and refund histories
RefundMaxHook == 4

\* checkouts of the token specification
TokenMaxPay == 2

(***************************************************************************)
(* JavaScript values                                                       *)
(***************************************************************************)
\* undefined / "" for a string field: both are falsy
Missing == ""
\* a numeric field that is undefined (e.g. price of a non-plan object)
Undefined == -1
\* the amount field is absent or the empty string
AmountMissing == -1
\* the amount field is a non-numeric string: parseFloat gives NaN
AmountGarbage == -2
NaN == -3

(***************************************************************************)
(* Plan catalog (config/plans.js)                                          *)
(***************************************************************************)
SUBSCRIPTION_PLANS ==
  [starter |-> [id |-> "starter", price |-> 9800, duration_days |-> 30],
   professional |-> [id |-> "professional", price |-> 49800, duration_days |-> 30],
   unlimited |-> [id |-> "unlimited", price |-> 99800, duration_days |-> 365]]

\* `null`
NullPlan == [id |-> "null", price |-> Undefined, duration_days |-> Undefined]
\* SUBSCRIPTION_PLANS["constructor"] is Object: truthy, without price
ProtoPlan == [id |-> "proto", price |-> Undefined, duration_days |-> Undefined]
ProtoKeys == {"constructor"}

getPlan(planId) ==
  IF planId \in DOMAIN SUBSCRIPTION_PLANS THEN SUBSCRIPTION_PLANS[planId]
  ELSE IF planId \in ProtoKeys THEN ProtoPlan
  ELSE NullPlan

Abs(x) == IF x < 0 THEN -x ELSE x

Tolerance == 1

validatePlanPrice(planId, amountCents) ==
  LET plan == getPlan(planId) IN
  IF plan = NullPlan THEN FALSE
  ELSE IF plan.price = Undefined \/ amountCents = NaN THEN FALSE
  ELSE Abs(plan.price - amountCents) <= Tolerance

(***************************************************************************)
(* Amounts.  The notification carries the amount as a decimal string; it   *)
(* is represented by its value in thousandths of the currency unit         *)
(* ("98.00" is 98000, "98.004" is 98004).                                  *)
(***************************************************************************)
\* Math.round(parseFloat(amount) * 100)
AmountInCents(amount) ==
  IF amount = AmountGarbage THEN NaN ELSE (amount + 5) \div 10

\* amountInCents !== plan.price
StrictNotEqual(a, b) == a = NaN \/ b = NaN \/ a = Undefined \/ b = Undefined \/ a # b

\* mutant: only an overpayment counts as a mismatch
PriceMismatchMut(amountInCents, plan) ==
  amountInCents = NaN \/ plan.price = Undefined \/ amountInCents > plan.price

PriceMismatch(amountInCents, plan) == StrictNotEqual(amountInCents, plan.price)

(***************************************************************************)
(* Signature of a notification                                             *)
(***************************************************************************)
IPN_SECRET == "ipn-secret"
DigestHexLen == 64

\* JSON.stringify(ipnData): the parsed fields, in order
Stringify(ipn) == <<ipn.status, ipn.custom_param1, ipn.custom_param2, ipn.token, ipn.amount>>

\* crypto.createHmac('sha256', secret).update(data).digest('hex')
Hmac(secret, data) == [len |-> DigestHexLen, key |-> secret, msg |-> data]

\* no x-payoneer-signature header
NoSignature == [len |-> 0, key |-> "", msg |-> <<>>]

\* "true", "false", or "throw": timingSafeEqual throws a RangeError on
\* buffers of different length
verifyPayoneerSignature(ipnData, signature) ==
  IF signature.len = 0 THEN "false"
  ELSE LET calculatedSignature == Hmac(IPN_SECRET, Stringify(ipnData)) IN
       IF signature.len # calculatedSignature.len THEN "throw"
       ELSE IF signature = calculatedSignature THEN "true" ELSE "false"


(***************************************************************************)
(* State                                                                   *)
(***************************************************************************)
VARIABLES
  payments,       \* Map id -> payment, in insertion order (the id is the index)
  subscriptions,  \* Map id -> subscription, in insertion order
  auditLog,       \* the auditLog array
  now,            \* the clock (new Date()), in days
  hook,           \* POST /webhooks/payoneer requests
  checkout,       \* POST /api/payment/create-checkout requests
  gate,           \* GET /api/articles/download/:filename requests
  users,          \* Map email -> user
  signup          \* POST /api/auth/signup requests

vars == <<payments, subscriptions, auditLog, now, hook, checkout, gate, users, signup>>

\* the request slots
HookIds == DOMAIN hook
CheckoutIds == DOMAIN checkout
GateIds == DOMAIN gate
stores == <<payments, subscriptions, auditLog>>

\* a request's address (req.ip)
ReqIp == "10.0.0.1"

(***************************************************************************)
(* db (models/user.js)                                                     *)
(***************************************************************************)
\* first element of a set of indices, 0 (null) if there is none
FirstOf(S) == IF S = {} THEN 0 ELSE CHOOSE i \in S : \A j \in S : i <= j

\* db.payments.create
paymentsCreate(userId, planId, stripePaymentIntentId, amount) ==
  Append(payments,
         [id |-> Len(payments) + 1, user_id |-> userId, plan_id |-> planId,
          stripe_payment_intent_id |-> stripePaymentIntentId, amount |-> amount,
          status |-> "pending", created_at |-> now, updated_at |-> now])

\* db.payments.findByStripeId: the id of the first match, 0 for null
paymentsFindByStripeId(stripePaymentIntentId) ==
  FirstOf({i \in 1..Len(payments) :
             payments[i].stripe_payment_intent_id = stripePaymentIntentId})

\* db.payments.updateStatus
paymentsUpdateStatus(paymentId, status) ==
  IF paymentId \in 1..Len(payments)
  THEN [payments EXCEPT ![paymentId].status = status, ![paymentId].updated_at = now]
  ELSE payments

\* mutant: the subscription expires when it is created
subscriptionsCreateMut(userId, planId, stripeSubscriptionId, expiresAt) ==
  Append(subscriptions,
         [id |-> Len(subscriptions) + 1, user_id |-> userId, plan_id |-> planId,
          stripe_subscription_id |-> stripeSubscriptionId, status |-> "active",
          expires_at |-> now, created_at |-> now, updated_at |-> now])

\* db.subscriptions.create
subscriptionsCreate(userId, planId, stripeSubscriptionId, expiresAt) ==
  Append(subscriptions,
         [id |-> Len(subscriptions) + 1, user_id |-> userId, plan_id |-> planId,
          stripe_subscription_id |-> stripeSubscriptionId, status |-> "active",
          expires_at |-> expiresAt, created_at |-> now, updated_at |-> now])

\* db.subscriptions.findByUserId: the ids of the user's subscriptions, in order
RECURSIVE subsOfUser(_, _)
subsOfUser(userId, n) ==
  IF n = 0 THEN <<>>
  ELSE IF subscriptions[n].user_id = userId
       THEN Append(subsOfUser(userId, n - 1), n)
       ELSE subsOfUser(userId, n - 1)

subscriptionsFindByUserId(userId) == subsOfUser(userId, Len(subscriptions))

\* mutant: the expiry date is not looked at
ActiveFilterMut(subs) ==
  SelectSeq(subs, LAMBDA i : subscriptions[i].status = "active")

\* the filter of db.subscriptions.findActiveByUserId, applied to the
\* subscriptions collected by findByUserId
ActiveFilter(subs) ==
  SelectSeq(subs, LAMBDA i : subscriptions[i].status = "active"
                             /\ subscriptions[i].expires_at > now)

\* db.subscriptions.updateStatus
subscriptionsUpdateStatus(subscriptionId, status) ==
  IF subscriptionId \in 1..Len(subscriptions)
  THEN [subscriptions EXCEPT ![subscriptionId].status = status,
                             ![subscriptionId].updated_at = now]
  ELSE subscriptions

\* mutant: the newest entry is put first
auditLogPushMut(userId, action, details) ==
  <<[user_id |-> userId, action |-> action, details |-> details,
     ip |-> IF "ip" \in DOMAIN details THEN details.ip ELSE "unknown",
     timestamp |-> now]>> \o auditLog

\* db.audit.log
auditLogPush(userId, action, details) ==
  Append(auditLog,
         [user_id |-> userId, action |-> action, details |-> details,
          ip |-> IF "ip" \in DOMAIN details THEN details.ip ELSE "unknown",
          timestamp |-> now])


(***************************************************************************)
(* POST /webhooks/payoneer (routes/payment.js, second router)              *)
(***************************************************************************)
\* res.status(500) of a route that reports its failure to the caller
ServerErrorStatus == 500

\* mutant: the normal path answers with the error status
OkStatusMut == ServerErrorStatus

\* res.status(200) of the normal path and of the catch block, 401 of the
\* signature rejection
OkStatus == 200
CatchStatus == 200
UnauthorizedStatus == 401

NoIpn == [status |-> "", custom_param1 |-> "", custom_param2 |-> "", token |-> 0,
          amount |-> AmountMissing]

\* a request slot that has not been used
IdleHook == [pc |-> "idle", ipn |-> NoIpn, verified |-> "", payment |-> 0, subs |-> <<>>,
             subscription |-> 0, resp |-> 0]

\* the handler has returned: its locals are gone, the router has still to respond
Returned == [IdleHook EXCEPT !.pc = "respond", !.verified = "true"]

\* the response has been sent
Replied(v, status) == [IdleHook EXCEPT !.pc = "done", !.verified = v, !.resp = status]

\* mutant: a status the switch does not know is handled as a success
HandlerOfMut(status) ==
  CASE status \in {"failed", "declined"} -> "failed"
    [] status = "pending" -> "pending"
    [] status = "refund" -> "refunded"
    [] OTHER -> "succeeded"

\* the switch on ipnData.status
HandlerOf(status) ==
  CASE status \in {"success", "approved"} -> "succeeded"
    [] status \in {"failed", "declined"} -> "failed"
    [] status = "pending" -> "pending"
    [] status = "refund" -> "refunded"
    [] OTHER -> "default"

\* if (!userId || !planId || !amount)
MissingIpnData(ipn) ==
  ipn.custom_param1 = Missing \/ ipn.custom_param2 = Missing \/ ipn.amount = AmountMissing

\* The request arrives: signature check, dispatch, and the handler's code up
\* to its first await.  Requests take the free slots in order.
Deliver(h, ipn, signature) ==
  /\ hook[h].pc = "idle"
  /\ \A k \in 1..(h - 1) : hook[k].pc # "idle"
  /\ LET v == verifyPayoneerSignature(ipn, signature)
         req == [hook[h] EXCEPT !.ipn = ipn, !.verified = v]
     IN
     CASE v = "false" ->
            /\ hook' = [hook EXCEPT ![h] = Replied(v, UnauthorizedStatus)]
            /\ UNCHANGED stores
       [] v = "throw" ->
            /\ hook' = [hook EXCEPT ![h] = Replied(v, CatchStatus)]
            /\ UNCHANGED stores
       [] HandlerOf(ipn.status) = "succeeded" ->
            /\ hook' = [hook EXCEPT ![h] =
                 IF MissingIpnData(ipn) THEN Returned
                 ELSE [req EXCEPT !.pc = "succ_check",
                                  !.payment = paymentsFindByStripeId(ipn.token)]]
            /\ UNCHANGED stores
       [] HandlerOf(ipn.status) = "failed" ->
            /\ hook' = [hook EXCEPT ![h] =
                 [req EXCEPT !.pc = "fail_update",
                             !.payment = paymentsFindByStripeId(ipn.token)]]
            /\ UNCHANGED stores
       [] HandlerOf(ipn.status) = "pending" ->
            /\ hook' = [hook EXCEPT ![h] = Returned]
            /\ auditLog' = auditLogPush(ipn.custom_param1, "payment_pending",
                                        [paymentToken |-> ipn.token])
            /\ UNCHANGED <<payments, subscriptions>>
       [] HandlerOf(ipn.status) = "refunded" ->
            /\ hook' = [hook EXCEPT ![h] =
                 [req EXCEPT !.pc = "refund_cancel",
                             !.subs = subscriptionsFindByUserId(ipn.custom_param1)]]
            /\ UNCHANGED stores
       [] OTHER ->
            /\ hook' = [hook EXCEPT ![h] = Replied(v, OkStatus)]
            /\ UNCHANGED stores
  /\ UNCHANGED <<now, checkout, gate, users, signup>>

\* mutant: the expected amount is left out of the entry
FraudDetailsMut(ipn, plan, amountInCents) ==
  [paymentToken |-> ipn.token, actualAmount |-> amountInCents, planId |-> ipn.custom_param2]

\* the details of the fraud_detected audit entry
FraudDetails(ipn, plan, amountInCents) ==
  [paymentToken |-> ipn.token, expectedAmount |-> plan.price,
   actualAmount |-> amountInCents, planId |-> ipn.custom_param2]

\* handlePaymentSucceeded after the payment lookup: idempotency check, plan
\* lookup, amount check, subscription creation
SuccCheck(h) ==
  /\ hook[h].pc = "succ_check"
  /\ LET ipn == hook[h].ipn
         payment == hook[h].payment
         plan == getPlan(ipn.custom_param2)
         amountInCents == AmountInCents(ipn.amount)
     IN
     IF payment # 0 /\ payments[payment].status = "completed"
     THEN /\ hook' = [hook EXCEPT ![h] = Returned]
          /\ UNCHANGED stores
     ELSE IF plan = NullPlan
     THEN /\ auditLog' = auditLogPush(ipn.custom_param1, "invalid_plan",
                           [planId |-> ipn.custom_param2, paymentToken |-> ipn.token])
          /\ hook' = [hook EXCEPT ![h] = Returned]
          /\ UNCHANGED <<payments, subscriptions>>
     ELSE IF PriceMismatch(amountInCents, plan)
     THEN /\ auditLog' = auditLogPush(ipn.custom_param1, "fraud_detected",
                                      FraudDetails(ipn, plan, amountInCents))
          /\ hook' = [hook EXCEPT ![h] = Returned]
          /\ UNCHANGED <<payments, subscriptions>>
     ELSE /\ subscriptions' = subscriptionsCreate(ipn.custom_param1, ipn.custom_param2,
                                 ipn.token, now + plan.duration_days)
          /\ hook' = [hook EXCEPT ![h].pc = "succ_update",
                                  ![h].subscription = Len(subscriptions) + 1]
          /\ UNCHANGED <<payments, auditLog>>
  /\ UNCHANGED <<now, checkout, gate, users, signup>>

\* mutant: the entry does not name the new Subscription
SubscriptionCreatedDetailsMut(h) ==
  [paymentToken |-> hook[h].ipn.token, planId |-> hook[h].ipn.custom_param2,
   amount |-> AmountInCents(hook[h].ipn.amount),
   expiresAt |-> subscriptions[hook[h].subscription].expires_at,
   subscriptionId |-> 0]

SubscriptionCreatedDetails(h) ==
  [paymentToken |-> hook[h].ipn.token, planId |-> hook[h].ipn.custom_param2,
   amount |-> AmountInCents(hook[h].ipn.amount),
   expiresAt |-> subscriptions[hook[h].subscription].expires_at,
   subscriptionId |-> hook[h].subscription]

\* handlePaymentSucceeded after the subscription was created: the payment
\* status update if there is a payment record, else the audit entry at once
SuccUpdate(h) ==
  /\ hook[h].pc = "succ_update"
  /\ IF hook[h].payment # 0
     THEN /\ payments' = paymentsUpdateStatus(hook[h].payment, "completed")
          /\ hook' = [hook EXCEPT ![h].pc = "succ_audit"]
          /\ UNCHANGED <<subscriptions, auditLog>>
     ELSE /\ auditLog' = auditLogPush(hook[h].ipn.custom_param1, "subscription_created",
                                      SubscriptionCreatedDetails(h))
          /\ hook' = [hook EXCEPT ![h] = Returned]
          /\ UNCHANGED <<payments, subscriptions>>
  /\ UNCHANGED <<now, checkout, gate, users, signup>>

\* handlePaymentSucceeded: the audit entry after the payment status update
SuccAudit(h) ==
  /\ hook[h].pc = "succ_audit"
  /\ auditLog' = auditLogPush(hook[h].ipn.custom_param1, "subscription_created",
                              SubscriptionCreatedDetails(h))
  /\ hook' = [hook EXCEPT ![h] = Returned]
  /\ UNCHANGED <<payments, subscriptions, now, checkout, gate, users, signup>>

\* error_message is not among the fields of the notifications modelled
FailedDetails(h) == [paymentToken |-> hook[h].ipn.token, reason |-> Missing]

\* handlePaymentFailed after the payment lookup
FailUpdate(h) ==
  /\ hook[h].pc = "fail_update"
  /\ IF hook[h].payment # 0
     THEN /\ payments' = paymentsUpdateStatus(hook[h].payment, "failed")
          /\ hook' = [hook EXCEPT ![h].pc = "fail_audit"]
          /\ UNCHANGED <<subscriptions, auditLog>>
     ELSE /\ auditLog' = auditLogPush(hook[h].ipn.custom_param1, "payment_failed",
                                      FailedDetails(h))
          /\ hook' = [hook EXCEPT ![h] = Returned]
          /\ UNCHANGED <<payments, subscriptions>>
  /\ UNCHANGED <<now, checkout, gate, users, signup>>

FailAudit(h) ==
  /\ hook[h].pc = "fail_audit"
  /\ auditLog' = auditLogPush(hook[h].ipn.custom_param1, "payment_failed",
                              FailedDetails(h))
  /\ hook' = [hook EXCEPT ![h] = Returned]
  /\ UNCHANGED <<payments, subscriptions, now, checkout, gate, users, signup>>

\* subscriptions.find((s) => s.plan_id === planId) on the collected array
FindByPlan(subs, planId) ==
  LET hits == {k \in 1..Len(subs) : subscriptions[subs[k]].plan_id = planId} IN
  IF hits = {} THEN 0 ELSE subs[FirstOf(hits)]

\* handlePaymentRefunded after findByUserId: cancel the subscription found,
\* or go on to the payment lookup when there is none
RefundCancel(h) ==
  /\ hook[h].pc = "refund_cancel"
  /\ LET subscription == FindByPlan(hook[h].subs, hook[h].ipn.custom_param2) IN
     IF subscription # 0
     THEN /\ subscriptions' = subscriptionsUpdateStatus(subscription, "canceled")
          /\ hook' = [hook EXCEPT ![h].pc = "refund_find", ![h].subscription = subscription,
                                  ![h].subs = <<>>]
     ELSE /\ hook' = [hook EXCEPT ![h].pc = "refund_update", ![h].subs = <<>>,
                                  ![h].payment = paymentsFindByStripeId(hook[h].ipn.token)]
          /\ UNCHANGED subscriptions
  /\ UNCHANGED <<payments, auditLog, now, checkout, gate, users, signup>>

\* handlePaymentRefunded: the payment lookup after the cancellation
RefundFind(h) ==
  /\ hook[h].pc = "refund_find"
  /\ hook' = [hook EXCEPT ![h].pc = "refund_update",
                          ![h].payment = paymentsFindByStripeId(hook[h].ipn.token)]
  /\ UNCHANGED <<stores, now, checkout, gate, users, signup>>

RefundedDetails(h) ==
  [paymentToken |-> hook[h].ipn.token, planId |-> hook[h].ipn.custom_param2,
   subscriptionId |-> hook[h].subscription]

\* handlePaymentRefunded after the payment lookup
RefundUpdate(h) ==
  /\ hook[h].pc = "refund_update"
  /\ IF hook[h].payment # 0
     THEN /\ payments' = paymentsUpdateStatus(hook[h].payment, "refunded")
          /\ hook' = [hook EXCEPT ![h].pc = "refund_audit"]
          /\ UNCHANGED <<subscriptions, auditLog>>
     ELSE /\ auditLog' = auditLogPush(hook[h].ipn.custom_param1, "payment_refunded",
                                      RefundedDetails(h))
          /\ hook' = [hook EXCEPT ![h] = Returned]
          /\ UNCHANGED <<payments, subscriptions>>
  /\ UNCHANGED <<now, checkout, gate, users, signup>>

RefundAudit(h) ==
  /\ hook[h].pc = "refund_audit"
  /\ auditLog' = auditLogPush(hook[h].ipn.custom_param1, "payment_refunded",
                              RefundedDetails(h))
  /\ hook' = [hook EXCEPT ![h] = Returned]
  /\ UNCHANGED <<payments, subscriptions, now, checkout, gate, users, signup>>

\* mutant: the router never answers
RespondMut(h) ==
  /\ hook[h].pc = "respond"
  /\ UNCHANGED vars

\* the handler has returned: res.status(200).json({ received: true })
Respond(h) ==
  /\ hook[h].pc = "respond"
  /\ hook' = [hook EXCEPT ![h] = Replied(hook[h].verified, OkStatus)]
  /\ UNCHANGED <<stores, now, checkout, gate, users, signup>>


(***************************************************************************)
(* POST /api/payment/create-checkout (routes/payment.js, first router)     *)
(***************************************************************************)
IdleCheckout == [pc |-> "idle", userId |-> Missing, planId |-> Missing, token |-> 0, resp |-> 0]

\* mutant: every checkout gets the same token
uuidv4Mut(c) == 1

\* uuidv4(): the token of the request in slot c, different from every other
uuidv4(c) == c

\* requireAuth, the planId validation and uuidv4(), up to the await of
\* db.users.findById.  The token of the request in slot c is c: every
\* uuid is fresh.  A session belongs to a registered user.
CheckoutBegin(c, sessionUserId, planId) ==
  /\ checkout[c].pc = "idle"
  /\ \A k \in 1..(c - 1) : checkout[k].pc # "idle"
  /\ checkout' = [checkout EXCEPT ![c] =
       IF sessionUserId = Missing
       THEN [IdleCheckout EXCEPT !.pc = "done", !.resp = 401]
       ELSE IF planId = Missing \/ getPlan(planId) = NullPlan
       THEN [IdleCheckout EXCEPT !.pc = "done", !.userId = sessionUserId, !.resp = 400]
       ELSE [pc |-> "co_create", userId |-> sessionUserId, planId |-> planId,
             token |-> uuidv4(c), resp |-> 0]]
  /\ UNCHANGED <<stores, now, hook, gate, users, signup>>

\* const { planId } = req.body: of the body only planId is read
CreateCheckout(c, sessionUserId, body) == CheckoutBegin(c, sessionUserId, body.planId)

\* mutant: the checkout grants the subscription at once
CheckoutCreateMut(c) ==
  /\ checkout[c].pc = "co_create"
  /\ payments' = paymentsCreate(checkout[c].userId, checkout[c].planId, checkout[c].token,
                                getPlan(checkout[c].planId).price)
  /\ subscriptions' = subscriptionsCreate(checkout[c].userId, checkout[c].planId,
                                          checkout[c].token,
                                          now + getPlan(checkout[c].planId).duration_days)
  /\ checkout' = [checkout EXCEPT ![c].pc = "co_audit"]
  /\ UNCHANGED <<auditLog, now, hook, gate, users, signup>>

\* db.payments.create with the catalog price
CheckoutCreate(c) ==
  /\ checkout[c].pc = "co_create"
  /\ payments' = paymentsCreate(checkout[c].userId, checkout[c].planId, checkout[c].token,
                                getPlan(checkout[c].planId).price)
  /\ checkout' = [checkout EXCEPT ![c].pc = "co_audit"]
  /\ UNCHANGED <<subscriptions, auditLog, now, hook, gate, users, signup>>

CheckoutAudit(c) ==
  /\ checkout[c].pc = "co_audit"
  /\ auditLog' = auditLogPush(checkout[c].userId, "payment_initiated",
                   [paymentToken |-> checkout[c].token, planId |-> checkout[c].planId,
                    amount |-> getPlan(checkout[c].planId).price, ip |-> ReqIp])
  /\ checkout' = [checkout EXCEPT ![c].pc = "co_respond"]
  /\ UNCHANGED <<payments, subscriptions, now, hook, gate, users, signup>>

\* res.json({ paymentToken, checkoutUrl, ... })
CheckoutRespond(c) ==
  /\ checkout[c].pc = "co_respond"
  /\ checkout' = [checkout EXCEPT ![c].pc = "done", ![c].resp = 200]
  /\ UNCHANGED <<stores, now, hook, gate, users, signup>>

(***************************************************************************)
(* GET /api/articles/download/:filename (routes/articles.js) behind        *)
(* requireAuth and requireSubscription (middleware/auth.js)                *)
(***************************************************************************)
\* mutant: the route is mounted without requireSubscription
DownloadChainMut == <<"requireAuth", "download">>

\* the handlers the route is mounted with, in order
DownloadChain == <<"requireAuth", "requireSubscription", "download">>

ALLOWED_FILES == {"health-wellness.pdf", "article-1.pdf"}

\* mutant: the route handler without the whitelist test
WhitelistedMut(filename) == TRUE

\* ALLOWED_FILES.has(filename)
Whitelisted(filename) == filename \in ALLOWED_FILES

\* the directory the files are served from; a path is the sequence of its
\* segments, and no path has been built while filepath is NoPath
PDF_DIR == <<"backend", "pdfs">>
NoPath == <<>>

\* path.join(PDF_DIR, filename) for a filename of one segment
PathJoin(dir, filename) == Append(dir, filename)

\* filepath.startsWith(PDF_DIR)
StartsWith(filepath, dir) ==
  Len(filepath) >= Len(dir) /\ SubSeq(filepath, 1, Len(dir)) = dir

\* statSync(filepath).size of a file of the pdfs directory
FileSize(filename) == IF filename = "article-1.pdf" THEN 1800 ELSE 2300

\* a request slot that has not been used.  looked and listed record that
\* findActiveByUserId and ALLOWED_FILES.has were executed for the request,
\* found is the number of active subscriptions the lookup returned.
IdleGate == [pc |-> "idle", pos |-> 0, session |-> Missing, filename |-> "", userId |-> Missing,
             subs |-> <<>>, subscription |-> 0, looked |-> FALSE, listed |-> FALSE,
             found |-> 0, filepath |-> NoPath, resp |-> 0, message |-> "",
             route |-> "download", paymentToken |-> 0, payment |-> 0, status |-> ""]

\* the handlers the other read routes are mounted with: GET
\* /api/articles/subscribed, /api/articles/verify,
\* /api/payment/subscription/status and /api/payment/status/:paymentToken
ChainOf(route) ==
  CASE route = "download" -> DownloadChain
    [] route = "subscribed" -> <<"requireAuth", "requireSubscription", "subscribed">>
    [] route = "verify" -> <<"requireAuth", "verify">>
    [] route = "subscription_status" -> <<"requireAuth", "subscription_status">>
    [] route = "payment_status" -> <<"requireAuth", "payment_status">>
    [] route = "premium" -> <<"requireSubscription", "premium">>

\* next(): the following handler of the chain takes over
NextHandler(req) ==
  [req EXCEPT !.pos = req.pos + 1, !.pc = ChainOf(req.route)[req.pos + 1]]

GateReply(req, status, message) ==
  [req EXCEPT !.pc = "done", !.resp = status, !.message = message, !.subs = <<>>]

\* the request arrives with its session cookie resolved (or not)
GateArrive(g, session, filename) ==
  /\ gate[g].pc = "idle"
  /\ \A k \in 1..(g - 1) : gate[k].pc # "idle"
  /\ gate' = [gate EXCEPT ![g] =
                NextHandler([IdleGate EXCEPT !.session = session, !.filename = filename])]
  /\ UNCHANGED <<stores, now, hook, checkout, users, signup>>

requireAuth(g) ==
  /\ gate[g].pc = "requireAuth"
  /\ gate' = [gate EXCEPT ![g] =
       IF gate[g].session = Missing
       THEN GateReply(gate[g], 401, "Please log in to continue")
       ELSE NextHandler([gate[g] EXCEPT !.userId = gate[g].session])]
  /\ UNCHANGED <<stores, now, hook, checkout, users, signup>>

\* mutant: the middleware reads the session itself
requireSubscriptionMut(g) ==
  /\ gate[g].pc = "requireSubscription"
  /\ gate' = [gate EXCEPT ![g] =
       IF gate[g].session = Missing
       THEN GateReply(gate[g], 401, "")
       ELSE [gate[g] EXCEPT !.pc = "sub_filter", !.looked = TRUE,
                            !.userId = gate[g].session,
                            !.subs = subscriptionsFindByUserId(gate[g].session)]]
  /\ UNCHANGED <<stores, now, hook, checkout, users, signup>>

\* requireSubscription up to the await inside findActiveByUserId: the
\* userId check and findByUserId
requireSubscription(g) ==
  /\ gate[g].pc = "requireSubscription"
  /\ gate' = [gate EXCEPT ![g] =
       IF gate[g].userId = Missing
       THEN GateReply(gate[g], 401, "")
       ELSE [gate[g] EXCEPT !.pc = "sub_filter", !.looked = TRUE,
                            !.subs = subscriptionsFindByUserId(gate[g].userId)]]
  /\ UNCHANGED <<stores, now, hook, checkout, users, signup>>

\* the filter of findActiveByUserId and the decision of requireSubscription
SubFilter(g) ==
  /\ gate[g].pc = "sub_filter"
  /\ LET active == ActiveFilter(gate[g].subs) IN
     gate' = [gate EXCEPT ![g] =
       IF Len(active) = 0
       THEN GateReply(gate[g], 403, "Active subscription required")
       ELSE NextHandler([gate[g] EXCEPT !.subscription = active[1], !.found = Len(active),
                                        !.subs = <<>>])]
  /\ UNCHANGED <<stores, now, hook, checkout, users, signup>>

\* mutant: the file is served without an audit entry
DownloadMut(g, onDisk) ==
  /\ gate[g].pc = "download"
  /\ LET listed == [gate[g] EXCEPT !.listed = TRUE]
         req == [listed EXCEPT !.filepath = PathJoin(PDF_DIR, listed.filename)]
     IN
     IF ~Whitelisted(listed.filename)
     THEN gate' = [gate EXCEPT ![g] = GateReply(listed, 404, "File not found")]
     ELSE IF ~StartsWith(req.filepath, PDF_DIR)
     THEN gate' = [gate EXCEPT ![g] = GateReply(req, 403, "Access denied")]
     ELSE IF ~onDisk
     THEN gate' = [gate EXCEPT ![g] = GateReply(req, 404, "File not found")]
     ELSE gate' = [gate EXCEPT ![g] = [req EXCEPT !.pc = "serve"]]
  /\ UNCHANGED <<stores, now, hook, checkout, users, signup>>

\* the route handler up to the await of db.audit.log; whether the file is
\* on disk is the environment's choice
Download(g, onDisk) ==
  /\ gate[g].pc = "download"
  /\ LET listed == [gate[g] EXCEPT !.listed = TRUE]
         req == [listed EXCEPT !.filepath = PathJoin(PDF_DIR, listed.filename)]
     IN
     IF ~Whitelisted(listed.filename)
     THEN /\ gate' = [gate EXCEPT ![g] = GateReply(listed, 404, "File not found")]
          /\ UNCHANGED auditLog
     ELSE IF ~StartsWith(req.filepath, PDF_DIR)
     THEN /\ gate' = [gate EXCEPT ![g] = GateReply(req, 403, "Access denied")]
          /\ UNCHANGED auditLog
     ELSE IF ~onDisk
     THEN /\ gate' = [gate EXCEPT ![g] = GateReply(req, 404, "File not found")]
          /\ UNCHANGED auditLog
     ELSE /\ auditLog' = auditLogPush(req.userId, "pdf_download",
                           [filename |-> req.filename, fileSize |-> FileSize(req.filename),
                            ip |-> ReqIp])
          /\ gate' = [gate EXCEPT ![g] = [req EXCEPT !.pc = "serve"]]
  /\ UNCHANGED <<payments, subscriptions, now, hook, checkout, users, signup>>

\* the headers are set and the file is piped to the response
Serve(g) ==
  /\ gate[g].pc = "serve"
  /\ gate' = [gate EXCEPT ![g] = GateReply(gate[g], 200, "")]
  /\ UNCHANGED <<stores, now, hook, checkout, users, signup>>

(***************************************************************************)
(* POST /api/auth/signup (routes/auth.js) and the users Map                *)
(* (models/user.js)                                                        *)
(***************************************************************************)
\* new Map()
NoUsers == [email \in {} |-> 0]

NoUser == [id |-> 0, email |-> Missing, password_hash |-> <<>>]

\* db.users.findByEmail: users.get(email) || null
usersFindByEmail(email) == IF email \in DOMAIN users THEN users[email] ELSE NoUser

\* mutant: the Map keeps the user it already has
usersCreateMut(id, email, passwordHash) ==
  [e \in DOMAIN users \cup {email} |->
     IF e \in DOMAIN users THEN users[e]
     ELSE [id |-> id, email |-> email, password_hash |-> passwordHash]]

\* db.users.create: users.set(email, user)
usersCreate(id, email, passwordHash) ==
  [e \in DOMAIN users \cup {email} |->
     IF e = email THEN [id |-> id, email |-> email, password_hash |-> passwordHash]
     ELSE users[e]]

\* email.toLowerCase()
toLowerCase(email) == IF email = "A@x.io" THEN "a@x.io" ELSE email

\* bcrypt.hash(password, 10)
bcryptHash(password) == <<"bcrypt", 10, password>>

IdleSignup == [pc |-> "idle", email |-> Missing, password |-> Missing, existingUser |-> NoUser,
               passwordHash |-> <<>>, resp |-> 0]

\* the input validation and the call of db.users.findByEmail, up to its await
SignupBegin(s, email, password) ==
  /\ signup[s].pc = "idle"
  /\ \A k \in 1..(s - 1) : signup[k].pc # "idle"
  /\ signup' = [signup EXCEPT ![s] =
       IF email = Missing \/ password = Missing
       THEN [IdleSignup EXCEPT !.pc = "done", !.resp = 400]
       ELSE [IdleSignup EXCEPT !.pc = "su_exists", !.email = toLowerCase(email),
                               !.password = password,
                               !.existingUser = usersFindByEmail(toLowerCase(email))]]
  /\ UNCHANGED <<stores, now, hook, checkout, gate, users>>

\* if (existingUser) 400; else bcrypt.hash is started
SignupHash(s) ==
  /\ signup[s].pc = "su_exists"
  /\ signup' = [signup EXCEPT ![s] =
       IF signup[s].existingUser # NoUser
       THEN [IdleSignup EXCEPT !.pc = "done", !.resp = 400]
       ELSE [signup[s] EXCEPT !.pc = "su_create",
                              !.passwordHash = bcryptHash(signup[s].password)]]
  /\ UNCHANGED <<stores, now, hook, checkout, gate, users>>

\* db.users.create with the lower-case email and the hash; the id of the
\* user made by the request in slot s is s (Math.random)
SignupCreate(s) ==
  /\ signup[s].pc = "su_create"
  /\ users' = usersCreate(s, signup[s].email, signup[s].passwordHash)
  /\ signup' = [signup EXCEPT ![s].pc = "su_audit"]
  /\ UNCHANGED <<stores, now, hook, checkout, gate>>

\* db.audit.log(user.id, 'signup', { email, ip })
SignupAudit(s) ==
  /\ signup[s].pc = "su_audit"
  /\ auditLog' = auditLogPush(s, "signup", [email |-> signup[s].email, ip |-> ReqIp])
  /\ signup' = [signup EXCEPT ![s].pc = "su_respond"]
  /\ UNCHANGED <<payments, subscriptions, now, hook, checkout, gate, users>>

\* res.status(201).json({ message: 'Account created successfully', ... })
SignupRespond(s) ==
  /\ signup[s].pc = "su_respond"
  /\ signup' = [signup EXCEPT ![s] =
                  [IdleSignup EXCEPT !.pc = "done", !.email = signup[s].email, !.resp = 201]]
  /\ UNCHANGED <<stores, now, hook, checkout, gate, users>>

(***************************************************************************)
(* The other read routes: GET /subscribed and /verify (routes/articles.js) *)
(* and GET /subscription/status and /status/:paymentToken                  *)
(* (routes/payment.js)                                                     *)
(***************************************************************************)
ReadRoutes == {"subscribed", "verify", "subscription_status", "payment_status"}

\* a request to one of the read routes arrives; paymentToken is the
\* parameter of the payment status route
RouteArrive(g, route, session, paymentToken) ==
  /\ gate[g].pc = "idle"
  /\ \A k \in 1..(g - 1) : gate[k].pc # "idle"
  /\ gate' = [gate EXCEPT ![g] =
                NextHandler([IdleGate EXCEPT !.route = route, !.session = session,
                                             !.paymentToken = paymentToken])]
  /\ UNCHANGED <<stores, now, hook, checkout, users, signup>>

\* the handler up to the await inside findActiveByUserId (for /subscribed
\* after db.users.findById): findByUserId
FindActive(g, route) ==
  /\ gate[g].pc = route
  /\ gate' = [gate EXCEPT ![g].pc = "filter", ![g].looked = TRUE,
                          ![g].subs = subscriptionsFindByUserId(gate[g].userId)]
  /\ UNCHANGED <<stores, now, hook, checkout, users, signup>>

Subscribed(g) == FindActive(g, "subscribed")

VerifyAccess(g) == FindActive(g, "verify")

SubscriptionStatus(g) == FindActive(g, "subscription_status")

\* mutant: the listing marks the subscription it found as accessed
SubscribedFilterMut(g) ==
  /\ gate[g].pc = "filter" /\ gate[g].route = "subscribed"
  /\ LET active == ActiveFilter(gate[g].subs) IN
     IF Len(active) = 0
     THEN /\ gate' = [gate EXCEPT ![g] = GateReply(gate[g], 403, "No active subscription")]
          /\ UNCHANGED <<auditLog, subscriptions>>
     ELSE /\ auditLog' = auditLogPush(gate[g].userId, "articles_accessed",
                                      [ip |-> ReqIp, count |-> 2])
          /\ subscriptions' = subscriptionsUpdateStatus(active[1], "accessed")
          /\ gate' = [gate EXCEPT ![g].pc = "reply", ![g].subscription = active[1],
                                  ![g].found = Len(active), ![g].subs = <<>>]
  /\ UNCHANGED <<payments, now, hook, checkout, users, signup>>

\* GET /subscribed after the lookup: 403 without an active subscription,
\* else the audit entry
SubscribedFilter(g) ==
  /\ gate[g].pc = "filter" /\ gate[g].route = "subscribed"
  /\ LET active == ActiveFilter(gate[g].subs) IN
     IF Len(active) = 0
     THEN /\ gate' = [gate EXCEPT ![g] = GateReply(gate[g], 403, "No active subscription")]
          /\ UNCHANGED auditLog
     ELSE /\ auditLog' = auditLogPush(gate[g].userId, "articles_accessed",
                                      [ip |-> ReqIp, count |-> 2])
          /\ gate' = [gate EXCEPT ![g].pc = "reply", ![g].subscription = active[1],
                                  ![g].found = Len(active), ![g].subs = <<>>]
  /\ UNCHANGED <<payments, subscriptions, now, hook, checkout, users, signup>>

\* res.json({ user, subscription, articles })
SubscribedReply(g) ==
  /\ gate[g].pc = "reply" /\ gate[g].route = "subscribed"
  /\ gate' = [gate EXCEPT ![g] = GateReply(gate[g], 200, "")]
  /\ UNCHANGED <<stores, now, hook, checkout, users, signup>>

\* GET /verify and GET /subscription/status after the lookup: 200 with
\* hasAccess / hasActiveSubscription and the first active subscription
AccessReply(g) ==
  /\ gate[g].pc = "filter" /\ gate[g].route \in {"verify", "subscription_status"}
  /\ LET active == ActiveFilter(gate[g].subs) IN
     gate' = [gate EXCEPT ![g] =
       GateReply([gate[g] EXCEPT !.found = Len(active),
                                 !.subscription = IF Len(active) = 0 THEN 0 ELSE active[1]],
                 200, "")]
  /\ UNCHANGED <<stores, now, hook, checkout, users, signup>>

\* GET /status/:paymentToken up to the await of db.payments.findByStripeId
PaymentStatus(g) ==
  /\ gate[g].pc = "payment_status"
  /\ gate' = [gate EXCEPT ![g].pc = "payment_reply",
                          ![g].payment = paymentsFindByStripeId(gate[g].paymentToken)]
  /\ UNCHANGED <<stores, now, hook, checkout, users, signup>>

\* mutant: the owner of the payment is not looked at
PaymentStatusReplyMut(g) ==
  /\ gate[g].pc = "payment_reply"
  /\ gate' = [gate EXCEPT ![g] =
       IF gate[g].payment = 0
       THEN GateReply(gate[g], 403, "Cannot access this payment")
       ELSE GateReply([gate[g] EXCEPT !.status = payments[gate[g].payment].status], 200, "")]
  /\ UNCHANGED <<stores, now, hook, checkout, users, signup>>

\* 403 for a payment that is not found or not the user's, else its status
PaymentStatusReply(g) ==
  /\ gate[g].pc = "payment_reply"
  /\ gate' = [gate EXCEPT ![g] =
       IF gate[g].payment = 0 \/ payments[gate[g].payment].user_id # gate[g].userId
       THEN GateReply(gate[g], 403, "Cannot access this payment")
       ELSE GateReply([gate[g] EXCEPT !.status = payments[gate[g].payment].status], 200, "")]
  /\ UNCHANGED <<stores, now, hook, checkout, users, signup>>

\* the steps of the routes that read subscriptions
ReadStep(g) ==
  \/ Subscribed(g)
  \/ SubscribedFilter(g)
  \/ SubscribedReply(g)
  \/ VerifyAccess(g)
  \/ SubscriptionStatus(g)
  \/ AccessReply(g)

(***************************************************************************)
(* Time                                                                    *)
(***************************************************************************)
\* the instants at which the clock is observed
TimePoints == {0, 29, 30}

Tick ==
  /\ \E t \in TimePoints : t > now /\ now' = t
  /\ UNCHANGED <<stores, hook, checkout, gate, users, signup>>


(***************************************************************************)
(* Requests the environment sends                                          *)
(***************************************************************************)
\* a token no payment record exists for (the store is in memory and does
\* not survive a restart of the server)
LostToken == MaxPay + 1

\* tokens a notification can name: those of the payment records, and a lost one
KnownTokens == {payments[i].stripe_payment_intent_id : i \in 1..Len(payments)}

Ipns(statuses, userIds, plans, tokens, amounts) ==
  [status : statuses, custom_param1 : userIds, custom_param2 : plans, token : tokens,
   amount : amounts]

\* the signatures a sender can attach to ipn: none, the processor's, one
\* made with another key, one of another length
Signatures(ipn) ==
  {NoSignature, Hmac(IPN_SECRET, Stringify(ipn)), Hmac("guess", Stringify(ipn)),
   [len |-> 3, key |-> "", msg |-> <<>>]}

(***************************************************************************)
(* Specification: notifications of every outcome, signed and forged,       *)
(* handled one after the other while checkouts are created                 *)
(***************************************************************************)
\* the server has just started: empty stores, and room for so many requests
InitAll(hooks, checkouts, gates, signups) ==
  /\ payments = <<>>
  /\ subscriptions = <<>>
  /\ auditLog = <<>>
  /\ now = 0
  /\ hook = [h \in 1..hooks |-> IdleHook]
  /\ checkout = [c \in 1..checkouts |-> IdleCheckout]
  /\ gate = [g \in 1..gates |-> IdleGate]
  /\ users = NoUsers
  /\ signup = [s \in 1..signups |-> IdleSignup]

InitWith(hooks, checkouts, gates) == InitAll(hooks, checkouts, gates, 0)

Init == InitWith(MaxHook, MaxPay, 0)

HookStep(h) ==
  \/ SuccCheck(h)
  \/ SuccUpdate(h)
  \/ SuccAudit(h)
  \/ FailUpdate(h)
  \/ FailAudit(h)
  \/ RefundCancel(h)
  \/ RefundFind(h)
  \/ RefundUpdate(h)
  \/ RefundAudit(h)
  \/ Respond(h)

CheckoutStep(c) ==
  \/ CheckoutCreate(c)
  \/ CheckoutAudit(c)
  \/ CheckoutRespond(c)

\* no notification is being handled
Quiet == \A h \in HookIds : hook[h].pc \in {"idle", "done"}

\* the token of the first checkout
FirstToken == 1

Tokens == KnownTokens \cup {LostToken}
\* "98.00" for the starter plan and a token: the notification the processor
\* sends for a paid checkout, and what it becomes when one field is changed
PaidIpns == Ipns({"success"}, {"u1"}, {"starter"}, Tokens, {98000})
\* "98.02", "1.00", and a notification without amount
WrongAmountIpns ==
  Ipns({"success"}, {"u1"}, {"starter"}, KnownTokens \cap {FirstToken}, {98020})
  \cup Ipns({"success"}, {"u1"}, {"starter"}, {LostToken}, {1000, AmountMissing})
WrongPlanIpns == Ipns({"approved"}, {"u1"}, {"bogus", "constructor"}, {LostToken}, {98000})
OtherStatusIpns ==
  Ipns({"failed"}, {"u1"}, {"starter"}, KnownTokens \cap {FirstToken}, {98000})
  \cup Ipns({"refund"}, {"u1"}, {"starter"}, (KnownTokens \cap {FirstToken}) \cup {LostToken}, {98000})
  \cup Ipns({"pending", "chargeback"}, {"u1"}, {"starter"}, {LostToken}, {98000})

\* one notification at least for every outcome of the endpoint
SpecIpns ==
  PaidIpns \cup OtherStatusIpns
  \cup Ipns({"success"}, {"u1"}, {"starter"}, KnownTokens \cap {FirstToken}, {98020})
  \cup Ipns({"success"}, {"u1"}, {"starter"}, {LostToken}, {AmountMissing})
  \cup Ipns({"approved"}, {"u1"}, {"bogus"}, {LostToken}, {98000})

Next ==
  \/ \E h \in 1..MaxHook : \E ipn \in SpecIpns :
       Quiet /\ Deliver(h, ipn, Hmac(IPN_SECRET, Stringify(ipn)))
  \/ \E h \in 1..MaxHook : \E ipn \in PaidIpns :
       \E signature \in Signatures(ipn) \ {Hmac(IPN_SECRET, Stringify(ipn))} :
         Quiet /\ Deliver(h, ipn, signature)
  \/ \E h \in 1..MaxHook : HookStep(h)
  \/ \E c \in 1..MaxPay : CheckoutBegin(c, "u1", "starter")
  \/ \E c \in 1..MaxPay : CheckoutStep(c)

Spec == Init /\ [][Next]_vars

(***************************************************************************)
(* Specification: success notifications with right and wrong amounts and   *)
(* plans, handled one after the other while checkouts are created          *)
(***************************************************************************)
FraudIpns == PaidIpns \cup WrongAmountIpns \cup WrongPlanIpns

NextFraud ==
  \/ \E h \in 1..MaxHook : \E ipn \in FraudIpns :
       Quiet /\ Deliver(h, ipn, Hmac(IPN_SECRET, Stringify(ipn)))
  \/ \E h \in 1..MaxHook : SuccCheck(h) \/ SuccUpdate(h) \/ SuccAudit(h) \/ Respond(h)
  \/ \E c \in 1..MaxPay : CheckoutBegin(c, "u1", "starter")
  \/ \E c \in 1..MaxPay : CheckoutStep(c)

SpecFraud == Init /\ [][NextFraud]_vars

(***************************************************************************)
(* Specification: the notification of a paid checkout, delivered again     *)
(* after it has been handled                                               *)
(***************************************************************************)
\* the notification of a paid checkout, with "98.00" and with "98.01"
SeqIpns == Ipns({"success"}, {"u1"}, {"starter"}, Tokens, {98000, 98010})

NextSeq ==
  \/ \E h \in 1..MaxHook : \E ipn \in SeqIpns :
       Quiet /\ Deliver(h, ipn, Hmac(IPN_SECRET, Stringify(ipn)))
  \/ \E h \in 1..MaxHook : SuccCheck(h) \/ SuccUpdate(h) \/ SuccAudit(h) \/ Respond(h)
  \/ \E c \in 1..MaxPay : CheckoutBegin(c, "u1", "starter")
  \/ \E c \in 1..MaxPay : CheckoutStep(c)

SpecSeq == Init /\ [][NextSeq]_vars

(***************************************************************************)
(* Specification: the notification of a paid checkout, delivered more than *)
(* once and handled concurrently                                           *)
(***************************************************************************)
NextRace ==
  \/ \E h \in 1..MaxHook : \E ipn \in Ipns({"success"}, {"u1"}, {"starter"}, KnownTokens, {98000}) :
       Deliver(h, ipn, Hmac(IPN_SECRET, Stringify(ipn)))
  \/ \E h \in 1..MaxHook : SuccCheck(h) \/ SuccUpdate(h) \/ SuccAudit(h) \/ Respond(h)
  \/ \E c \in 1..MaxPay : CheckoutBegin(c, "u1", "starter")
  \/ \E c \in 1..MaxPay : CheckoutStep(c)

SpecRace == Init /\ [][NextRace]_vars

(***************************************************************************)
(* Specification: the access gate, while subscriptions are granted and     *)
(* expire                                                                  *)
(***************************************************************************)
SessionInputs == {"u1", Missing}
FilenameInputs == {"article-1.pdf", "secret.pdf"}

GateStep(g) ==
  \/ requireAuth(g)
  \/ requireSubscription(g)
  \/ SubFilter(g)
  \/ \E onDisk \in BOOLEAN : Download(g, onDisk)
  \/ Serve(g)

\* the notification of a payment whose record the server has lost
GateIpns == Ipns({"success"}, {"u1"}, {"starter"}, {LostToken}, {98000})

NextGate ==
  \/ \E g \in 1..MaxGate : \E session \in SessionInputs, filename \in FilenameInputs :
       GateArrive(g, session, filename)
  \/ \E g \in 1..MaxGate : GateStep(g)
  \/ \E h \in 1..GateMaxHook : \E ipn \in GateIpns :
       Deliver(h, ipn, Hmac(IPN_SECRET, Stringify(ipn)))
  \/ \E h \in 1..GateMaxHook : SuccCheck(h) \/ SuccUpdate(h) \/ Respond(h)
  \/ Tick

InitGate == InitWith(GateMaxHook, 0, MaxGate)

SpecGate == InitGate /\ [][NextGate]_vars

(***************************************************************************)
(* Specification: the routes that read subscriptions, while subscriptions  *)
(* are granted                                                             *)
(***************************************************************************)
SubscriptionRoutes == {"subscribed", "verify", "subscription_status"}

NextRead ==
  \/ \E g \in 1..MaxGate : \E session \in SessionInputs, filename \in FilenameInputs :
       GateArrive(g, session, filename)
  \/ \E g \in 1..MaxGate : \E route \in SubscriptionRoutes, session \in SessionInputs :
       RouteArrive(g, route, session, 0)
  \/ \E g \in 1..MaxGate : GateStep(g)
  \/ \E g \in 1..MaxGate : ReadStep(g)
  \/ \E h \in 1..GateMaxHook : \E ipn \in GateIpns :
       Deliver(h, ipn, Hmac(IPN_SECRET, Stringify(ipn)))
  \/ \E h \in 1..GateMaxHook : SuccCheck(h) \/ SuccUpdate(h) \/ Respond(h)

SpecRead == InitGate /\ [][NextRead]_vars

(***************************************************************************)
(* Specification: checkouts, payment status queries, pending and forged    *)
(* notifications and download requests, with no success notification       *)
(***************************************************************************)
\* the notification that the first checkout's payment is being processed;
\* forged, it claims that the payment succeeded
PendingIpns == Ipns({"pending"}, {"u1"}, {"starter"}, {FirstToken}, {98000})

\* signatures that are not the processor's
ForgedSignatures(ipn) == {NoSignature, Hmac("guess", Stringify(ipn))}

NextPending ==
  \/ \E c \in 1..MaxPay : CheckoutBegin(c, "u1", "starter")
  \/ \E c \in 1..MaxPay : CheckoutStep(c)
  \/ \E g \in 1..MaxGate : \E paymentToken \in {FirstToken, LostToken} :
       RouteArrive(g, "payment_status", "u1", paymentToken)
  \/ \E g \in 1..MaxGate : PaymentStatus(g) \/ PaymentStatusReply(g)
  \/ \E g \in 1..MaxGate : GateArrive(g, "u1", "article-1.pdf")
  \/ \E g \in 1..MaxGate : requireAuth(g) \/ requireSubscription(g) \/ SubFilter(g)
  \/ \E h \in 1..GateMaxHook : \E ipn \in PendingIpns :
       Deliver(h, ipn, Hmac(IPN_SECRET, Stringify(ipn)))
  \/ \E h \in 1..GateMaxHook : \E ipn \in PendingIpns :
       \E signature \in ForgedSignatures(ipn) :
         Deliver(h, [ipn EXCEPT !.status = "success"], signature)
  \/ \E h \in 1..GateMaxHook : Respond(h)

InitPending == InitWith(GateMaxHook, MaxPay, MaxGate)

SpecPending == InitPending /\ [][NextPending]_vars

(***************************************************************************)
(* Specification: checkouts of two users with any request body, and        *)
(* payment status queries                                                  *)
(***************************************************************************)
Callers == {"u1", "u2"}

\* request bodies: a catalog planId, one that is no plan, one that is a
\* property every object has, none; with and without an amount field (in
\* cents, AmountMissing for none)
Bodies == [planId : {"starter", "bogus", "constructor", Missing}, amount : {AmountMissing, 1}]

NextCheckout ==
  \/ \E c \in 1..MaxPay : \E sessionUserId \in Callers \cup {Missing}, body \in Bodies :
       CreateCheckout(c, sessionUserId, body)
  \/ \E c \in 1..MaxPay : CheckoutStep(c)
  \/ \E g \in 1..MaxGate :
       \E session \in Callers \cup {Missing}, paymentToken \in {FirstToken, LostToken} :
         RouteArrive(g, "payment_status", session, paymentToken)
  \/ \E g \in 1..MaxGate : requireAuth(g) \/ PaymentStatus(g) \/ PaymentStatusReply(g)

InitCheckout == InitWith(0, MaxPay, MaxGate)

SpecCheckout == InitCheckout /\ [][NextCheckout]_vars

(***************************************************************************)
(* Specification: checkouts of two users, created concurrently             *)
(***************************************************************************)
NextTokens ==
  \/ \E c \in 1..TokenMaxPay : \E sessionUserId \in Callers, planId \in {"starter", "professional"} :
       CheckoutBegin(c, sessionUserId, planId)
  \/ \E c \in 1..TokenMaxPay : CheckoutStep(c)

InitTokens == InitWith(0, TokenMaxPay, 0)

SpecTokens == InitTokens /\ [][NextTokens]_vars

(***************************************************************************)
(* Specification: histories of purchases, failures and refunds, the        *)
(* notifications handled one after the other while a checkout is created   *)
(***************************************************************************)
RefundIpns == Ipns({"success", "failed", "refund"}, {"u1"}, {"starter"}, Tokens, {98000})

NextRefund ==
  \/ \E h \in 1..RefundMaxHook : \E ipn \in RefundIpns :
       Quiet /\ Deliver(h, ipn, Hmac(IPN_SECRET, Stringify(ipn)))
  \/ \E h \in 1..RefundMaxHook : HookStep(h)
  \/ \E c \in 1..MaxPay : CheckoutBegin(c, "u1", "starter")
  \/ \E c \in 1..MaxPay : CheckoutStep(c)

InitRefund == InitWith(RefundMaxHook, MaxPay, 0)

SpecRefund == InitRefund /\ [][NextRefund]_vars

(***************************************************************************)
(* Specification: success notifications whose userId and planId are not    *)
(* those of the checkout.  custom_param1 and custom_param2 travel in the   *)
(* query of the checkout URL the caller is given.                          *)
(***************************************************************************)
PayerIpns ==
  Ipns({"success"}, {"u1", "u2"}, {"starter", "professional"}, Tokens, {98000, 498000})

NextPayer ==
  \/ \E h \in 1..MaxHook : \E ipn \in PayerIpns :
       Quiet /\ Deliver(h, ipn, Hmac(IPN_SECRET, Stringify(ipn)))
  \/ \E h \in 1..MaxHook : SuccCheck(h) \/ SuccUpdate(h) \/ SuccAudit(h) \/ Respond(h)
  \/ \E c \in 1..MaxPay : CheckoutBegin(c, "u1", "professional")
  \/ \E c \in 1..MaxPay : CheckoutStep(c)

SpecPayer == Init /\ [][NextPayer]_vars

(***************************************************************************)
(* Specification: success notifications that lack a field                  *)
(***************************************************************************)
\* ipnData.token is undefined: no payment record has it
TokenMissing == 0

MissingFieldIpns ==
  Ipns({"success"}, {"u1", Missing}, {"starter", Missing},
       (KnownTokens \cap {FirstToken}) \cup {TokenMissing}, {98000, AmountMissing})

NextMissing ==
  \/ \E h \in 1..MaxHook : \E ipn \in MissingFieldIpns :
       Quiet /\ Deliver(h, ipn, Hmac(IPN_SECRET, Stringify(ipn)))
  \/ \E h \in 1..MaxHook : SuccCheck(h) \/ SuccUpdate(h) \/ SuccAudit(h) \/ Respond(h)
  \/ \E c \in 1..MaxPay : CheckoutBegin(c, "u1", "starter")
  \/ \E c \in 1..MaxPay : CheckoutStep(c)

SpecMissing == Init /\ [][NextMissing]_vars

(***************************************************************************)
(* Specification: every continuation that is ready is run.  The event      *)
(* loop resumes each handler after its await, so a handler step that       *)
(* stays enabled is taken.                                                 *)
(***************************************************************************)
LiveMaxHook == 2

LiveIpns ==
  Ipns({"success", "failed", "refund", "pending", "chargeback"}, {"u1"}, {"starter"},
       KnownTokens \cap {FirstToken}, {98000})

NextLive ==
  \/ \E h \in 1..LiveMaxHook : \E ipn \in LiveIpns :
       Quiet /\ Deliver(h, ipn, Hmac(IPN_SECRET, Stringify(ipn)))
  \/ \E h \in 1..LiveMaxHook : \E ipn \in PendingIpns :
       \E signature \in Signatures(ipn) \ {Hmac(IPN_SECRET, Stringify(ipn))} :
         Quiet /\ Deliver(h, ipn, signature)
  \/ \E h \in 1..LiveMaxHook : HookStep(h)
  \/ \E c \in 1..MaxPay : CheckoutBegin(c, "u1", "starter")
  \/ \E c \in 1..MaxPay : CheckoutStep(c)

InitLive == InitWith(LiveMaxHook, MaxPay, 0)

SpecLive ==
  /\ InitLive
  /\ [][NextLive]_vars
  /\ \A h \in 1..LiveMaxHook : WF_vars(HookStep(h))

(***************************************************************************)
(* Specification: signups, their steps interleaved at the awaits           *)
(***************************************************************************)
MaxSignup == 2

EmailInputs == {"a@x.io", "A@x.io", "b@x.io", Missing}
PasswordInputs == {"Passw0rd!", "0therPass!"}

SignupStep(s) ==
  \/ SignupHash(s)
  \/ SignupCreate(s)
  \/ SignupAudit(s)
  \/ SignupRespond(s)

NextSignup ==
  \/ \E s \in 1..MaxSignup : \E email \in EmailInputs, password \in PasswordInputs :
       SignupBegin(s, email, password)
  \/ \E s \in 1..MaxSignup : SignupStep(s)

InitSignup == InitAll(0, 0, 0, MaxSignup)

SpecSignup == InitSignup /\ [][NextSignup]_vars

(***************************************************************************)
(* Specification: a route mounted with requireSubscription alone           *)
(* (router.get('/premium', requireSubscription, handler)) next to the      *)
(* download route.  The handler of /premium is never reached.              *)
(***************************************************************************)
NextPremium ==
  \/ \E g \in 1..MaxGate : \E session \in SessionInputs :
       RouteArrive(g, "premium", session, 0)
  \/ \E g \in 1..MaxGate : \E session \in SessionInputs :
       GateArrive(g, session, "article-1.pdf")
  \/ \E g \in 1..MaxGate : GateStep(g)
  \/ \E h \in 1..GateMaxHook : \E ipn \in GateIpns :
       Deliver(h, ipn, Hmac(IPN_SECRET, Stringify(ipn)))
  \/ \E h \in 1..GateMaxHook : SuccCheck(h) \/ SuccUpdate(h) \/ Respond(h)
  \/ Tick

SpecPremium == InitGate /\ [][NextPremium]_vars

(***************************************************************************)
(* Specification: notifications as the bytes of their form-encoded body.   *)
(* The router parses the body with express.urlencoded before the handler   *)
(* sees it; the handler signs JSON.stringify of the parsed fields.         *)
(***************************************************************************)
\* the body that carries the fields of ipn, the values of the fields in
\* escaped written with percent escapes ("%73uccess" for "success")
RawBody(ipn, escaped) ==
  <<"urlencoded", ipn.status, ipn.custom_param1, ipn.custom_param2, ipn.token, ipn.amount,
    escaped>>

\* express.urlencoded({ extended: true }): req.body, the decoded fields
urlencoded(raw) ==
  [status |-> raw[2], custom_param1 |-> raw[3], custom_param2 |-> raw[4], token |-> raw[5],
   amount |-> raw[6]]

\* the ways a sender writes the body
Escapings == {{}, {"status"}}

\* the signatures sent with raw: the MAC of its bytes, and the MAC of the
\* JSON text of its fields
RawSignatures(raw) ==
  {Hmac(IPN_SECRET, raw), Hmac(IPN_SECRET, Stringify(urlencoded(raw)))}

\* router.post('/', express.urlencoded(...), handler)
DeliverRaw(h, raw, signature) == Deliver(h, urlencoded(raw), signature)

NextRaw ==
  \/ \E h \in 1..MaxHook : \E ipn \in PaidIpns, escaped \in Escapings :
       \E signature \in RawSignatures(RawBody(ipn, escaped)) :
         Quiet /\ DeliverRaw(h, RawBody(ipn, escaped), signature)
  \/ \E h \in 1..MaxHook : SuccCheck(h) \/ SuccUpdate(h) \/ SuccAudit(h) \/ Respond(h)
  \/ \E c \in 1..MaxPay : CheckoutBegin(c, "u1", "starter")
  \/ \E c \in 1..MaxPay : CheckoutStep(c)

SpecRaw == Init /\ [][NextRaw]_vars

(***************************************************************************)
(* Specification: the await of db.audit.log rejects.  The await is inside  *)
(* the try block of each handler, so control goes to the handler's catch.  *)
(***************************************************************************)
\* GET /download/:filename: every check has passed, the file is on disk,
\* and db.audit.log rejects: the catch answers 500, nothing is streamed
DownloadAuditFails(g) ==
  /\ gate[g].pc = "download"
  /\ LET listed == [gate[g] EXCEPT !.listed = TRUE]
         req == [listed EXCEPT !.filepath = PathJoin(PDF_DIR, listed.filename)]
     IN /\ Whitelisted(listed.filename)
        /\ StartsWith(req.filepath, PDF_DIR)
        /\ gate' = [gate EXCEPT ![g] =
                      GateReply(req, ServerErrorStatus, "Unable to download file")]
  /\ UNCHANGED <<stores, now, hook, checkout, users, signup>>

\* POST /create-checkout: the PaymentAttempt has been created and
\* db.audit.log rejects: the catch answers 500
CheckoutAuditFails(c) ==
  /\ checkout[c].pc = "co_audit"
  /\ checkout' = [checkout EXCEPT ![c].pc = "done", ![c].resp = ServerErrorStatus]
  /\ UNCHANGED <<stores, now, hook, gate, users, signup>>

\* handlePaymentSucceeded: the grant has been applied and db.audit.log
\* rejects: the catch of the router answers 200
SuccAuditFails(h) ==
  /\ hook[h].pc = "succ_audit"
  /\ hook' = [hook EXCEPT ![h] = Replied("true", CatchStatus)]
  /\ UNCHANGED <<stores, now, checkout, gate, users, signup>>

NextAuditFails ==
  \/ \E c \in 1..MaxPay : CheckoutBegin(c, "u1", "starter")
  \/ \E c \in 1..MaxPay : CheckoutStep(c) \/ CheckoutAuditFails(c)
  \/ \E h \in 1..GateMaxHook : \E ipn \in PaidIpns :
       Quiet /\ Deliver(h, ipn, Hmac(IPN_SECRET, Stringify(ipn)))
  \/ \E h \in 1..GateMaxHook :
       SuccCheck(h) \/ SuccUpdate(h) \/ SuccAudit(h) \/ SuccAuditFails(h) \/ Respond(h)
  \/ \E g \in 1..MaxGate : GateArrive(g, "u1", "article-1.pdf")
  \/ \E g \in 1..MaxGate : GateStep(g) \/ DownloadAuditFails(g)

SpecAuditFails == InitPending /\ [][NextAuditFails]_vars

(***************************************************************************)
(* Properties                                                              *)
(***************************************************************************)
\* the request in slot h takes the step that starts at pc
HookStepAt(h, pc) == hook[h].pc = pc /\ hook'[h] # hook[h]

SubsOfToken(token) ==
  {i \in 1..Len(subscriptions) : subscriptions[i].stripe_subscription_id = token}

CompletedOfToken(token) ==
  {i \in 1..Len(payments) : payments[i].stripe_payment_intent_id = token
                            /\ payments[i].status = "completed"}

\* the audit log records that this notification was processed and granted
AlreadyGranted(ipn) ==
  \E i \in 1..Len(auditLog) :
    /\ auditLog[i].action = "subscription_created"
    /\ auditLog[i].user_id = ipn.custom_param1
    /\ auditLog[i].details.paymentToken = ipn.token
    /\ auditLog[i].details.planId = ipn.custom_param2
    /\ auditLog[i].details.amount = AmountInCents(ipn.amount)

\* the Fraud Guard's verdict on a notification: unknown plan, or an amount
\* further than the tolerance from the plan's price
FraudRejects(ipn) == ~validatePlanPrice(ipn.custom_param2, AmountInCents(ipn.amount))

\* the step of handlePaymentSucceeded that consults the Fraud Guard: the
\* payment was not found completed
GuardStep(h) ==
  /\ HookStepAt(h, "succ_check")
  /\ ~(hook[h].payment # 0 /\ payments[hook[h].payment].status = "completed")

\* C1: when the identical success notification is processed a second time,
\* after the first processing has finished, the second processing writes
\* nothing (no Subscription, no PaymentAttempt change, no audit entry) and
\* there is exactly one Subscription and one completed PaymentAttempt for
\* the token.
C1_Idempotence ==
  [][\A h \in HookIds :
       (HookStepAt(h, "succ_check") /\ AlreadyGranted(hook[h].ipn))
       => /\ stores' = stores
          /\ Cardinality(SubsOfToken(hook[h].ipn.token)) = 1
          /\ Cardinality(CompletedOfToken(hook[h].ipn.token)) = 1]_vars

\* C2: no reachable state contains two Subscriptions for the same payment
\* token, however the concurrent deliveries interleave.
C2_NoTwoSubscriptionsPerToken ==
  \A i, j \in 1..Len(subscriptions) :
    i # j => subscriptions[i].stripe_subscription_id # subscriptions[j].stripe_subscription_id

\* C3: processing a success notification whose amount is within the
\* tolerance of the plan's price, for a pending PaymentAttempt, creates
\* exactly one Subscription, and the handler then moves the PaymentAttempt
\* to completed.
C3_GrantWithinTolerance ==
  [][\A h \in HookIds :
       /\ (/\ HookStepAt(h, "succ_check")
           /\ hook[h].payment # 0
           /\ payments[hook[h].payment].status = "pending"
           /\ ~FraudRejects(hook[h].ipn))
          => /\ Len(subscriptions') = Len(subscriptions) + 1
             /\ hook'[h].pc = "succ_update"
       /\ (HookStepAt(h, "succ_update") /\ hook[h].payment # 0)
          => /\ payments[hook[h].payment].status = "pending"
             /\ payments'[hook[h].payment].status = "completed"]_vars

\* C4: a success notification the Fraud Guard rejects creates no
\* Subscription and leaves every PaymentAttempt as it was, at every step of
\* its processing.
C4_FraudFailsClosed ==
  [][\A h \in HookIds :
       (/\ hook'[h] # hook[h]
        /\ \/ (hook[h].pc = "idle" /\ hook'[h].pc = "succ_check"
               /\ FraudRejects(hook'[h].ipn))
           \/ (hook[h].pc \in {"succ_check", "succ_update", "succ_audit"}
               /\ FraudRejects(hook[h].ipn)))
       => /\ subscriptions' = subscriptions
          /\ payments' = payments]_vars

\* C4 witness: a rejected notification for a pending PaymentAttempt has been
\* processed; the attempt is still pending and there is no Subscription.
C4_Witness ==
  \E i \in 1..Len(auditLog) : \E p \in 1..Len(payments) :
    /\ auditLog[i].action = "fraud_detected"
    /\ payments[p].stripe_payment_intent_id = auditLog[i].details.paymentToken
    /\ payments[p].status = "pending"
    /\ subscriptions = <<>>
    /\ Quiet

\* the last entry of the log after the step, when the step appended one
Appended(action) ==
  /\ Len(auditLog') = Len(auditLog) + 1
  /\ SubSeq(auditLog', 1, Len(auditLog)) = auditLog
  /\ auditLog'[Len(auditLog')].action = action

\* C5 as stated: every Fraud Guard rejection (amount mismatch or unknown
\* plan) appends a fraud_detected entry with the expected and the claimed
\* amount.
C5_FraudAlwaysLoggedAsFraud ==
  [][\A h \in HookIds :
       (GuardStep(h) /\ FraudRejects(hook[h].ipn))
       => /\ Appended("fraud_detected")
          /\ {"expectedAmount", "actualAmount"} \subseteq DOMAIN auditLog'[Len(auditLog')].details]_vars

\* C5 amended: a rejection for an amount mismatch appends a fraud_detected
\* entry with the plan's price as expected amount and the claimed amount in
\* cents; a rejection for a plan getPlan does not find appends an
\* invalid_plan entry naming the planId and the token.
C5_RejectionLogged ==
  [][\A h \in HookIds :
       (GuardStep(h) /\ FraudRejects(hook[h].ipn))
       => LET ipn == hook[h].ipn
              plan == getPlan(ipn.custom_param2)
              entry == auditLog'[Len(auditLog')]
          IN
          IF plan = NullPlan
          THEN /\ Appended("invalid_plan")
               /\ entry.details = [planId |-> ipn.custom_param2, paymentToken |-> ipn.token]
          ELSE /\ Appended("fraud_detected")
               /\ {"expectedAmount", "actualAmount"} \subseteq DOMAIN entry.details
               /\ entry.details.expectedAmount = plan.price
               /\ entry.details.actualAmount = AmountInCents(ipn.amount)
               /\ entry.user_id = ipn.custom_param1]_vars

\* C5 witness: both kinds of rejection have been logged.
C5_Witness ==
  /\ \E i \in 1..Len(auditLog) :
       auditLog[i].action = "fraud_detected" /\ auditLog[i].details.expectedAmount = 9800
  /\ \E i \in 1..Len(auditLog) : auditLog[i].action = "invalid_plan"

\* C6: the notification handler grants exactly when validatePlanPrice
\* accepts: a difference of at most one cent is granted, two or more is
\* rejected.
C6_HandlerAgreesWithValidatePlanPrice ==
  [][\A h \in HookIds :
       GuardStep(h)
       => ((Len(subscriptions') = Len(subscriptions) + 1)
           <=> validatePlanPrice(hook[h].ipn.custom_param2,
                                 AmountInCents(hook[h].ipn.amount)))]_vars

\* C7: a notification whose signature is missing or wrong, of whatever
\* length, is answered 401, reaches no handler and changes no store.
C7_BadSignatureRejected ==
  [][\A h \in HookIds :
       (hook[h].pc = "idle" /\ hook'[h].pc # "idle" /\ hook'[h].verified # "true")
       => /\ hook'[h].resp = UnauthorizedStatus
          /\ hook'[h].pc = "done"
          /\ stores' = stores]_vars

\* C8: a notification with a valid signature is answered 200 whatever its
\* outcome, and 401 is answered only when verification returned false.
C8_ValidSignatureAcknowledged ==
  \A h \in HookIds :
    hook[h].pc = "done"
    => /\ (hook[h].verified = "true" => hook[h].resp = 200)
       /\ (hook[h].resp = 401 => hook[h].verified = "false")
       /\ hook[h].resp \in {200, 401}

\* C8 witness: a verified notification that was rejected as fraud has been
\* answered 200, and an unverified one 401.
C8_Witness ==
  /\ \E h \in HookIds : hook[h].pc = "done" /\ hook[h].verified = "true" /\ hook[h].resp = 200
  /\ \E h \in HookIds : hook[h].pc = "done" /\ hook[h].verified = "false" /\ hook[h].resp = 401
  /\ \E i \in 1..Len(auditLog) : auditLog[i].action = "fraud_detected"


\* the request in slot g takes the step that starts at pc
GateStepAt(g, pc) == gate[g].pc = pc /\ gate'[g] # gate[g]

\* the user has no subscription that is active and not expired
NoActiveSubscription(userId) ==
  ~\E i \in 1..Len(subscriptions) :
     /\ subscriptions[i].user_id = userId
     /\ subscriptions[i].status = "active"
     /\ subscriptions[i].expires_at > now

\* C9: on the download route the subscription lookup runs only for a
\* request with a resolved session userId, the whitelist lookup only for a
\* request whose subscription check succeeded, and an unauthenticated
\* request is answered 401 with neither of them evaluated.
C9_GateOrdering ==
  \A g \in GateIds :
    /\ gate[g].looked => (gate[g].session # Missing /\ gate[g].userId = gate[g].session)
    /\ gate[g].listed => (gate[g].looked /\ gate[g].subscription # 0)
    /\ (gate[g].pc = "done" /\ gate[g].session = Missing)
       => (gate[g].resp = 401 /\ ~gate[g].looked /\ ~gate[g].listed)

\* C9 witness: a request went through the three stages in order and was served.
C9_Witness ==
  \E g \in GateIds :
    /\ gate[g].pc = "done" /\ gate[g].resp = 200
    /\ gate[g].looked /\ gate[g].listed /\ gate[g].subscription # 0

\* C10: when the subscription check of an authenticated request finds the
\* user without an active, unexpired subscription, the response is the same
\* 403 whatever the requested identifier, and no store changes.
C10_NoSubscriptionSameResponse ==
  [][\A g \in GateIds :
       (GateStepAt(g, "sub_filter") /\ NoActiveSubscription(gate[g].userId))
       => /\ \A filename \in FilenameInputs :
               [gate'[g] EXCEPT !.filename = filename]
                 = [IdleGate EXCEPT !.pc = "done", !.pos = gate[g].pos,
                                    !.session = gate[g].session, !.userId = gate[g].userId,
                                    !.filename = filename, !.looked = TRUE, !.resp = 403,
                                    !.message = "Active subscription required"]
          /\ stores' = stores]_vars

\* C10 witness: a user whose subscription has expired asked for a
\* whitelisted file and was answered 403.
C10_Witness ==
  \E g \in GateIds :
    /\ gate[g].pc = "done" /\ gate[g].resp = 403 /\ gate[g].session = "u1"
    /\ gate[g].filename \in ALLOWED_FILES
    /\ \E i \in 1..Len(subscriptions) :
         subscriptions[i].user_id = "u1" /\ subscriptions[i].status = "active"
         /\ subscriptions[i].expires_at <= now

\* C11: for a user with an active subscription, a resource identifier that
\* is not a key of the whitelist is answered 404 by the route handler; no
\* path is built from it, no audit entry is written, no store changes, and
\* the request never reaches the streaming of a file.
C11_UnlistedNotFound ==
  [][\A g \in GateIds :
       /\ (GateStepAt(g, "download") /\ gate[g].filename \notin ALLOWED_FILES)
          => /\ gate[g].subscription # 0
             /\ gate'[g].pc = "done"
             /\ gate'[g].resp = 404
             /\ gate'[g].filepath = NoPath
             /\ stores' = stores
       /\ (gate'[g].filename \notin ALLOWED_FILES)
          => (gate'[g].pc # "serve" /\ gate'[g].resp # 200 /\ gate'[g].filepath = NoPath)]_vars

\* C11 witness: a subscriber asked for a file that is not whitelisted and
\* was answered 404 by the route handler.
C11_Witness ==
  \E g \in GateIds :
    /\ gate[g].pc = "done" /\ gate[g].resp = 404 /\ gate[g].listed
    /\ gate[g].subscription # 0
    /\ gate[g].filename \notin ALLOWED_FILES
    /\ gate[g].filepath = NoPath

\* the PaymentAttempt of the token is completed
TokenCompleted(token) == CompletedOfToken(token) # {}

\* C12: when a refund notification for a token whose PaymentAttempt is
\* completed is processed, the Subscription of that token becomes canceled
\* and the status of no other Subscription changes.
C12_RefundCancelsSubscriptionOfToken ==
  [][\A h \in HookIds :
       (HookStepAt(h, "refund_cancel") /\ TokenCompleted(hook[h].ipn.token))
       => \A i \in 1..Len(subscriptions) :
            subscriptions'[i].status =
              IF subscriptions[i].stripe_subscription_id = hook[h].ipn.token
              THEN "canceled" ELSE subscriptions[i].status]_vars

\* the status of every record of a store
Statuses(store) == [i \in 1..Len(store) |-> store[i].status]

RefundPcs == {"refund_cancel", "refund_find", "refund_update", "refund_audit"}

\* C13: the processing of a refund notification for a token that is
\* unknown, or whose PaymentAttempt is not completed, changes the status of
\* no Subscription and of no PaymentAttempt; when the handler returns it has
\* appended an audit entry, and the request is answered 200.
C13_RefundOfNonCompletedIsNoOp ==
  [][\A h \in HookIds :
       (/\ hook[h].pc \in RefundPcs
        /\ hook'[h] # hook[h]
        /\ ~TokenCompleted(hook[h].ipn.token))
       => /\ Statuses(subscriptions') = Statuses(subscriptions)
          /\ Statuses(payments') = Statuses(payments)
          /\ (hook'[h].pc = "respond" => Appended("payment_refunded"))]_vars

\* the Subscriptions findActiveByUserId returns for the user, in the store subs
ActiveOf(subs, userId) ==
  {i \in 1..Len(subs) : /\ subs[i].user_id = userId
                         /\ subs[i].status = "active"
                         /\ subs[i].expires_at > now}

\* C14: when the only active, unexpired Subscription of a user was granted
\* by token t and a refund notification for t is processed, the user has no
\* active Subscription afterwards (and the gate answers 403).
C14_RefundRemovesAccess ==
  [][\A h \in HookIds :
       LET userId == hook[h].ipn.custom_param1
           active == ActiveOf(subscriptions, userId)
       IN
       (/\ HookStepAt(h, "refund_cancel")
        /\ Cardinality(active) = 1
        /\ \A i \in active : subscriptions[i].stripe_subscription_id = hook[h].ipn.token)
       => ActiveOf(subscriptions', userId) = {}]_vars

\* the transitions of the PaymentAttempt state machine
PaymentTransitions ==
  {<<"pending", "completed">>, <<"pending", "failed">>, <<"completed", "refunded">>}

\* C15: the status of a PaymentAttempt changes only along pending ->
\* completed, pending -> failed and completed -> refunded; failed and
\* refunded are never left.
C15_PaymentStateMachine ==
  [][\A i \in 1..Len(payments) :
       payments'[i].status # payments[i].status
       => <<payments[i].status, payments'[i].status>> \in PaymentTransitions]_vars

\* the users notifications and sessions name
UserIds == {"u1"}

\* C16: in every reachable state a user has at most one Subscription with
\* status active.
C16_AtMostOneActivePerUser ==
  \A userId \in UserIds :
    Cardinality({i \in 1..Len(subscriptions) :
                   subscriptions[i].user_id = userId /\ subscriptions[i].status = "active"}) <= 1

\* every notification handler has returned
HandlersReturned == \A h \in HookIds : hook[h].pc \in {"idle", "respond", "done"}

\* C17: once the handlers have returned, the token of every Subscription is
\* the token of a PaymentAttempt that is completed or refunded.
C17_SubscriptionOnlyFromCompletedPayment ==
  HandlersReturned
  => \A i \in 1..Len(subscriptions) :
       \E p \in 1..Len(payments) :
         /\ payments[p].stripe_payment_intent_id = subscriptions[i].stripe_subscription_id
         /\ payments[p].status \in {"completed", "refunded"}

\* C19: the filter of findActiveByUserId keeps a Subscription only if its
\* status is active and its expires_at is later than now, and writes
\* nothing: the request passes requireSubscription with such a Subscription
\* or is answered 403, and every stored Subscription is as before.
C19_LazyExpiry ==
  [][\A g \in GateIds :
       GateStepAt(g, "sub_filter")
       => LET current == {i \in 1..Len(subscriptions) :
                            /\ subscriptions[i].user_id = gate[g].userId
                            /\ subscriptions[i].status = "active"
                            /\ subscriptions[i].expires_at > now}
              kept == {gate[g].subs[k] : k \in 1..Len(gate[g].subs)} \cap current
          IN
          /\ subscriptions' = subscriptions
          /\ IF kept = {}
             THEN gate'[g].pc = "done" /\ gate'[g].resp = 403
             ELSE /\ gate'[g].pc # "done"
                  /\ gate'[g].subscription \in kept
                  /\ gate'[g].found = Cardinality(kept)]_vars

\* C19 witness: at the very instant its Subscription expires (expires_at =
\* now) a user is answered 403, and the stored status is still active.
C19_Witness ==
  \E g \in GateIds :
    /\ gate[g].pc = "done" /\ gate[g].resp = 403 /\ gate[g].looked
    /\ Len(subscriptions) >= 1
    /\ \A i \in 1..Len(subscriptions) :
         /\ subscriptions[i].user_id = gate[g].userId
         /\ subscriptions[i].status = "active"
         /\ subscriptions[i].expires_at = now

\* C20: no step of a request to the download, subscribed-list,
\* access-verify or subscription-status route, whether the request succeeds
\* or is rejected, creates or changes a Subscription or a PaymentAttempt.
C20_GateReadOnly ==
  [][gate' # gate => (subscriptions' = subscriptions /\ payments' = payments)]_vars

\* C20 witness: the subscribed list was served to a subscriber, and the
\* audit entry for it was written.
C20_Witness ==
  \E g \in GateIds :
    /\ gate[g].route = "subscribed" /\ gate[g].pc = "done" /\ gate[g].resp = 200
    /\ \E i \in 1..Len(auditLog) : auditLog[i].action = "articles_accessed"
    /\ \E i \in 1..Len(subscriptions) : subscriptions[i].status = "active"

\* C18: as long as no verified success notification has been processed,
\* there is no Subscription, the user has no active one, and no download
\* request gets past requireSubscription: each is answered 403.
C18_NoPrematureAccess ==
  /\ subscriptions = <<>>
  /\ \A userId \in UserIds : ActiveOf(subscriptions, userId) = {}
  /\ \A g \in GateIds :
       gate[g].route = "download"
       => /\ gate[g].pc \notin {"download", "serve"}
          /\ gate[g].pc = "done" => gate[g].resp = 403

\* C18 witness: the user has a pending PaymentAttempt held up by a pending
\* notification, asks for a whitelisted file and is answered 403.
C18_Witness ==
  /\ \E p \in 1..Len(payments) : payments[p].user_id = "u1" /\ payments[p].status = "pending"
  /\ \E i \in 1..Len(auditLog) : auditLog[i].action = "payment_pending"
  /\ \E g \in GateIds :
       /\ gate[g].route = "download" /\ gate[g].pc = "done" /\ gate[g].resp = 403
       /\ gate[g].filename \in ALLOWED_FILES

\* the planIds of the catalog
CatalogPlanIds == DOMAIN SUBSCRIPTION_PLANS

\* C21: an authenticated create-checkout request with a catalog planId
\* creates exactly one PaymentAttempt: pending, the caller's, with the
\* catalog price as amount; a request whose planId is missing or not in the
\* catalog is answered 400 and creates no PaymentAttempt and no audit entry.
C21_CheckoutTrustsOnlyPlanId ==
  [][\A c \in CheckoutIds :
       /\ (checkout[c].pc = "idle" /\ checkout'[c].pc # "idle"
           /\ checkout'[c].resp # 401 /\ checkout'[c].planId \notin CatalogPlanIds)
          => (checkout'[c].pc = "done" /\ checkout'[c].resp = 400 /\ stores' = stores)
       /\ (checkout[c].pc = "co_create" /\ checkout'[c] # checkout[c])
          => /\ checkout[c].planId \in CatalogPlanIds
             /\ payments' = Append(payments, payments'[Len(payments')])
             /\ payments'[Len(payments')].status = "pending"
             /\ payments'[Len(payments')].user_id = checkout[c].userId
             /\ payments'[Len(payments')].amount = SUBSCRIPTION_PLANS[checkout[c].planId].price]_vars

\* what the caller of a read route sees
Response(req) == <<req.resp, req.message, req.status>>

\* C22: the payment status query answers with the status of the
\* PaymentAttempt only when the attempt of the token belongs to the caller;
\* for a token of another user and for a token without attempt the response
\* is the same 403; no step of the query changes a store.
C22_StatusQueryOwnership ==
  [][\A g \in GateIds :
       /\ (gate[g].route = "payment_status" /\ gate'[g] # gate[g]) => stores' = stores
       /\ GateStepAt(g, "payment_reply")
          => LET p == gate[g].payment IN
             IF p # 0 /\ payments[p].user_id = gate[g].session
             THEN /\ payments[p].stripe_payment_intent_id = gate[g].paymentToken
                  /\ Response(gate'[g]) = <<200, "", payments[p].status>>
             ELSE Response(gate'[g]) = <<403, "Cannot access this payment", "">>]_vars

\* C22 witness: a caller asked for the status of another user's
\* PaymentAttempt and was answered 403.
C22_Witness ==
  \E g \in GateIds :
    /\ gate[g].route = "payment_status" /\ gate[g].pc = "done" /\ gate[g].resp = 403
    /\ gate[g].payment # 0
    /\ payments[gate[g].payment].user_id \in Callers \ {gate[g].session}

\* C25: in every reachable state no two PaymentAttempts have the same
\* external token.
C25_OnePaymentPerToken ==
  \A p, q \in 1..Len(payments) :
    p # q => payments[p].stripe_payment_intent_id # payments[q].stripe_payment_intent_id

\* C25 witness: two checkouts, one of each user, have created their
\* PaymentAttempts.
C25_Witness ==
  \E p, q \in 1..Len(payments) :
    /\ payments[p].user_id = "u1" /\ payments[q].user_id = "u2"
    /\ payments[p].stripe_payment_intent_id # payments[q].stripe_payment_intent_id

\* C23: no operation modifies, reorders or removes an entry of the audit
\* log: after every step the log of before is a prefix of the log.
C23_AuditAppendOnly ==
  [][/\ Len(auditLog') >= Len(auditLog)
     /\ SubSeq(auditLog', 1, Len(auditLog)) = auditLog]_vars

\* C23 witness: the log holds the entry of a checkout and, after it, the
\* entry of a notification.
C23_Witness ==
  \E i, j \in 1..Len(auditLog) :
    /\ i < j
    /\ auditLog[i].action = "payment_initiated"
    /\ auditLog[j].action \in {"subscription_created", "payment_refunded", "payment_failed"}

\* C24: a failing audit write blocks nothing: a download that passed every
\* gate stage and whose file is there goes on to be served, a checkout
\* whose PaymentAttempt was created goes on to be answered, and the stores
\* keep what the notification handler has written.
C24_AuditFailureNeverBlocks ==
  [][/\ \A g \in GateIds :
          GateStepAt(g, "download") /\ gate'[g].resp \notin {403, 404}
            => gate'[g].pc = "serve"
     /\ \A c \in CheckoutIds :
          checkout[c].pc = "co_audit" /\ checkout'[c] # checkout[c]
            => checkout'[c].pc = "co_respond"
     /\ \A h \in HookIds :
          HookStepAt(h, "succ_audit")
            => payments' = payments /\ subscriptions' = subscriptions]_vars

\* C26: a Subscription is created active, expiring duration_days of its
\* plan after its creation, and its expires_at never changes afterwards.
C26_ExpiryFixedAtCreation ==
  [][/\ Len(subscriptions') >= Len(subscriptions)
     /\ \A i \in 1..Len(subscriptions) :
          subscriptions'[i].expires_at = subscriptions[i].expires_at
     /\ \A i \in (Len(subscriptions) + 1)..Len(subscriptions') :
          /\ subscriptions'[i].status = "active"
          /\ subscriptions'[i].created_at = now
          /\ subscriptions'[i].plan_id \in DOMAIN SUBSCRIPTION_PLANS
          /\ subscriptions'[i].expires_at =
               now + SUBSCRIPTION_PLANS[subscriptions'[i].plan_id].duration_days]_vars

\* C26 witness: a starter subscription created on day 29 expires on day 59,
\* and still does on day 30.
C26_Witness ==
  /\ now = 30
  /\ \E i \in 1..Len(subscriptions) :
       /\ subscriptions[i].plan_id = "starter"
       /\ subscriptions[i].created_at = 29
       /\ subscriptions[i].expires_at = 59

\* the download request in slot g takes a step; the step that lets the
\* file be served appends one entry tagged action with the filename, the
\* user and the size, every other step of the request leaves the log alone
DeliveryLogged(g, action) ==
  IF gate[g].pc = "download" /\ gate'[g].pc = "serve"
  THEN /\ Appended(action)
       /\ auditLog'[Len(auditLog')].user_id = gate'[g].userId
       /\ auditLog'[Len(auditLog')].details.filename = gate'[g].filename
       /\ auditLog'[Len(auditLog')].details.fileSize = FileSize(gate'[g].filename)
  ELSE auditLog' = auditLog

\* C27 as stated: each delivery of a protected file appends exactly one
\* audit entry tagged resource_accessed with the file, the user and the
\* size; a request rejected at a gate stage appends none.
C27_DeliveryLoggedAsResourceAccessed ==
  [][\A g \in GateIds :
       gate'[g] # gate[g] /\ gate'[g].route = "download"
         => DeliveryLogged(g, "resource_accessed")]_vars

\* C27 amended: the entry is tagged pdf_download.
C27_DeliveryLoggedAsPdfDownload ==
  [][\A g \in GateIds :
       gate'[g] # gate[g] /\ gate'[g].route = "download"
         => DeliveryLogged(g, "pdf_download")]_vars

\* C27 witness: a file has been delivered and the log holds its entry.
C27_Witness ==
  \E g \in GateIds :
    /\ gate[g].route = "download" /\ gate[g].pc = "done" /\ gate[g].resp = 200
    /\ \E i \in 1..Len(auditLog) :
         /\ auditLog[i].action = "pdf_download"
         /\ auditLog[i].details.filename = gate[g].filename

\* C28: a notification is accepted exactly when its signature is the MAC
\* of the bytes of its body as received.
C28_MacOverRawBytes ==
  [][\A h \in HookIds : \A ipn \in PaidIpns, escaped \in Escapings :
       \A signature \in RawSignatures(RawBody(ipn, escaped)) :
         DeliverRaw(h, RawBody(ipn, escaped), signature)
           => (hook'[h].verified = "true"
                 <=> signature = Hmac(IPN_SECRET, RawBody(ipn, escaped)))]_vars

\* the PaymentAttempts of token that are refunded or failed
TerminalOfToken(token) ==
  {i \in 1..Len(payments) : /\ payments[i].stripe_payment_intent_id = token
                            /\ payments[i].status \in {"refunded", "failed"}}

\* C29: once the PaymentAttempt of a token is refunded or failed, handling
\* a verified success notification for the token creates no Subscription
\* and leaves the status of every PaymentAttempt as it is.
C29_NoGrantAfterTerminalState ==
  [][\A h \in HookIds :
       (/\ hook[h].pc \in {"succ_check", "succ_update", "succ_audit"}
        /\ hook'[h] # hook[h]
        /\ TerminalOfToken(hook[h].ipn.token) # {})
       => /\ Len(subscriptions') = Len(subscriptions)
          /\ Statuses(payments') = Statuses(payments)]_vars

\* C30: whenever no notification handler is part-way through, every
\* Subscription with status active carries the token of a PaymentAttempt
\* whose status is completed.
C30_ActiveSubscriptionHasCompletedPayment ==
  HandlersReturned
  => \A i \in 1..Len(subscriptions) :
       subscriptions[i].status = "active"
       => CompletedOfToken(subscriptions[i].stripe_subscription_id) # {}

\* C31: when a verified success notification creates a Subscription and a
\* PaymentAttempt of its token exists, the Subscription is for the user and
\* the plan of that PaymentAttempt, and the amount paid is the price of the
\* PaymentAttempt's plan.
C31_GrantGoesToPayer ==
  [][\A h \in HookIds :
       (/\ HookStepAt(h, "succ_check")
        /\ Len(subscriptions') = Len(subscriptions) + 1
        /\ hook[h].payment # 0)
       => LET payment == payments[hook[h].payment]
              subscription == subscriptions'[Len(subscriptions')]
          IN /\ subscription.user_id = payment.user_id
             /\ subscription.plan_id = payment.plan_id
             /\ ~PriceMismatch(AmountInCents(hook[h].ipn.amount),
                               getPlan(payment.plan_id))]_vars

\* the notification being handled lacks one of userId, planId, token, amount
LacksField(ipn) ==
  /\ ipn.status # ""
  /\ \/ ipn.custom_param1 = Missing
     \/ ipn.custom_param2 = Missing
     \/ ipn.token = TokenMissing
     \/ ipn.amount = AmountMissing

\* C32: handling a verified success notification that lacks userId,
\* planId, token or amount creates no Subscription and changes no
\* PaymentAttempt, and the request is answered 200.
C32_MissingFieldIsNoOp ==
  [][\A h \in HookIds :
       (hook[h].pc # "idle" /\ hook'[h] # hook[h] /\ LacksField(hook[h].ipn))
       => /\ subscriptions' = subscriptions
          /\ payments' = payments
          /\ (hook'[h].pc = "done" => hook'[h].resp = 200)]_vars

\* verified notifications that are pending or of a status the switch does
\* not know, for the token of a stored PaymentAttempt
InertIpns == Ipns({"pending", "chargeback"}, {"u1"}, {"starter"}, {FirstToken}, {98000})

CreatedEntries(i) ==
  {k \in 1..Len(auditLog) : /\ auditLog[k].action = "subscription_created"
                            /\ auditLog[k].details.subscriptionId = i}

\* the handler that created the Subscription i has not yet logged it
BeingGranted(i) ==
  \E h \in HookIds : hook[h].pc \in {"succ_update", "succ_audit"} /\ hook[h].subscription = i

\* C34: the handler that creates a Subscription logs one
\* subscription_created entry naming its token, its plan, the amount and
\* its id before it returns; once the handlers have returned there are as
\* many subscription_created entries as Subscriptions.
C34_EveryGrantLoggedOnce ==
  /\ \A i \in 1..Len(subscriptions) :
       IF BeingGranted(i)
       THEN CreatedEntries(i) = {}
       ELSE /\ Cardinality(CreatedEntries(i)) = 1
            /\ \A k \in CreatedEntries(i) :
                 /\ auditLog[k].details.paymentToken = subscriptions[i].stripe_subscription_id
                 /\ auditLog[k].details.planId = subscriptions[i].plan_id
                 /\ auditLog[k].details.amount = getPlan(subscriptions[i].plan_id).price
                 /\ auditLog[k].user_id = subscriptions[i].user_id
  /\ HandlersReturned
       => Cardinality({k \in 1..Len(auditLog) : auditLog[k].action = "subscription_created"})
            = Len(subscriptions)

\* C34 witness: two Subscriptions have been created and logged, one for a
\* stored PaymentAttempt and one without, and the handlers have returned.
C34_Witness ==
  /\ HandlersReturned
  /\ Len(subscriptions) = 2
  /\ \E i \in 1..Len(subscriptions) : subscriptions[i].stripe_subscription_id = LostToken
  /\ \E i \in 1..Len(subscriptions) : subscriptions[i].stripe_subscription_id = FirstToken
  /\ \A i \in 1..Len(subscriptions) : CreatedEntries(i) # {}

\* C35: a notification request is answered once: it has a response exactly
\* when it is done, and a request that is done never changes again; and
\* every request that has arrived is eventually done.
C35_ExactlyOneResponse ==
  /\ [][\A h \in HookIds :
          /\ hook[h].pc = "done" => hook'[h] = hook[h]
          /\ hook'[h].pc = "done" <=> hook'[h].resp \in {OkStatus, UnauthorizedStatus}
          /\ hook'[h].pc # "done" => hook'[h].resp = 0]_vars
  /\ \A h \in 1..LiveMaxHook : (hook[h].pc # "idle") ~> (hook[h].pc = "done")

\* C35 witness: a request whose signature check threw, a request that was
\* refused and a request whose handler ran have each been answered.
C35_Witness ==
  \E h \in HookIds :
    /\ hook[h].pc = "done"
    /\ hook[h].verified = "throw"
    /\ \E k \in HookIds : hook[k].pc = "done" /\ hook[k].verified = "true"

\* C36: a user stored for an email stays: no signup replaces the id or the
\* password hash stored for an email that is already registered.
C36_OneUserPerEmail ==
  [][\A email \in DOMAIN users :
       /\ email \in DOMAIN users'
       /\ users'[email].id = users[email].id
       /\ users'[email].password_hash = users[email].password_hash]_vars

====
